---- MODULE Spec2Model ----
(***************************************************************************)
(* Model of go/graphql-mongo/index.go: a GraphQL endpoint backed by a      *)
(* MongoDB database.  The state is the database (two collections are named *)
(* by the program: "posts" and "post"), the position of the process in its *)
(* init() function, and, for every request in flight, the position of      *)
(* Handler / Resolver.Post and their local variables.                      *)
(*                                                                         *)
(* The database outlives the process: a new process instance (Restart)     *)
(* runs init() again on the same database, and other clients of the        *)
(* database may insert documents (ExternalInsert).                         *)
(***************************************************************************)
EXTENDS Integers, Sequences, FiniteSets, TLC

\* ---- bounds of the model
MaxSeedings == 2  \* successful runs of init() on the same database
MaxExt == 2       \* documents other clients have put in a collection
NReq == 2         \* requests in flight in one process instance

Reqs == 1..NReq

\* ---- program constants
StatusBadRequest == 400
StatusInternalServerError == 500
StatusOK == 200

\* collection names as the call sites pass them to GetMongo / Cleanup
InitCol == "posts"
CleanupCol == "post"
PostCol == "post"
Collections == {InitCol, CleanupCol, PostCol}

\* the mock data of init()
MockData ==
  << [ID |-> 1, title |-> "First post", slug |-> "first-post"],
     [ID |-> 2, title |-> "Second post", slug |-> "second-post"],
     [ID |-> 3, title |-> "Third post", slug |-> "third-post"] >>

\* documents other clients of the database may write
ExtDocs ==
  { [ID |-> 7, title |-> "Older first", slug |-> "first-post"],
    [ID |-> 8, title |-> "Newer first", slug |-> "first-post"],
    [ID |-> 9, title |-> "Other second", slug |-> "second-post"] }

\* ---- request bodies: undecodable JSON, and
\* ---- { post(slug: s) { id slug title } } for a few slugs
QuerySlugs == {"first-post", "second-post"}
BadJSON == [json |-> FALSE, slug |-> "none"]
Bodies == {BadJSON} \cup { [json |-> TRUE, slug |-> s] : s \in QuerySlugs }
NoParams == [json |-> FALSE, slug |-> "none"]

\* ---- type post struct { ID graphql.ID; Slug string; Title string }
EmptyPost == [ID |-> "", Slug |-> "", Title |-> ""]

\* a cursor: nil (Find failed), or the documents it yields
NilCursor == [nil |-> TRUE, docs |-> << >>]
NewCursor(docs) == [nil |-> FALSE, docs |-> docs]

\* the err variables of Handler (decode, marshal) and of Post (find)
NoErr == [decode |-> FALSE, find |-> FALSE, marshal |-> FALSE]

\* the executor's response: data null / { post: ... }, and errors
NoResponse == [data |-> "none", post |-> EmptyPost, errors |-> "none"]
\* the http.ResponseWriter: status 0 means nothing was written
NoReply ==
  [status |-> 0, ctype |-> "", text |-> "", json |-> NoResponse, writes |-> 0]

VARIABLES
  db,         \* collection name -> sequence of documents, in cursor order
  ipc,        \* position of the process in init()
  exited,     \* the process has terminated (log.Fatal)
  seedings,   \* runs of init() that reached "Mock data added successfully!"
  conns,      \* connections opened by this process instance
  fatalAt,    \* the call whose error ended this instance in log.Fatal
  rpc,        \* request -> position in Handler / Post
  params,     \* request -> decoded params
  err,        \* request -> the errors its calls returned
  oneResult,  \* request -> *oneResult of Post
  ret,        \* request -> what Post returned: none, nil, obj, panic
  reply       \* request -> what Handler wrote to w

vars == << db, ipc, exited, seedings, conns, fatalAt, rpc, params, err,
           oneResult, ret, reply >>
reqvars == << rpc, params, err, oneResult, ret, reply >>

\* ---- pure helpers

\* the documents with slug s, in order
Matching(docs, s) == SelectSeq(docs, LAMBDA d : d.slug = s)

\* collection.Find(ctx, {slug: s}): the cursor, nil when Find fails
Find(docs, s, ok) == IF ok THEN NewCursor(Matching(docs, s)) ELSE NilCursor

\* cur.Decode(oneResult): the document's ID, slug and title overwrite the
\* struct's ID, Slug and Title, whatever they held; the int32 ID becomes
\* the graphql.ID string of its decimal digits
Decode(d, r) == [ID |-> ToString(d.ID), Slug |-> d.slug, Title |-> d.title]

\* for cur.Next(ctx) { cur.Decode(oneResult) }
RECURSIVE DecodeAll(_, _)
DecodeAll(docs, r) ==
  IF docs = << >> THEN r ELSE DecodeAll(Tail(docs), Decode(Head(docs), r))

\* if s := oneResult; s != nil { return &postResolver{oneResult} };
\* return nil.  oneResult is the address of a fresh post, never nil.
PostReturn(r) == "obj"

\* what the executor makes of Post's result for { id slug title }, through
\* postResolver.ID / Slug / Title; a panic in the resolver is recovered
\* into an error of the response
ExecResponse(rv, r) ==
  IF rv = "panic"
    THEN [data |-> "null", post |-> EmptyPost, errors |-> "panic"]
    ELSE IF rv = "nil"
      THEN [data |-> "null", post |-> EmptyPost, errors |-> "none"]
      ELSE [data |-> "object", post |-> r, errors |-> "none"]

\* http.Error(w, text, status), or Header().Set + Write of the JSON
Write(w, status, ctype, text, json) ==
  [status |-> IF w.status = 0 THEN status ELSE w.status,
   ctype |-> IF w.status = 0 THEN ctype ELSE w.ctype,
   text |-> text, json |-> json, writes |-> w.writes + 1]

\* ---- the process

Init ==
  /\ db = [c \in Collections |-> << >>]
  /\ ipc = "start"
  /\ exited = FALSE
  /\ seedings = 0
  /\ conns = 0
  /\ fatalAt = "none"
  /\ rpc = [i \in Reqs |-> "idle"]
  /\ params = [i \in Reqs |-> NoParams]
  /\ err = [i \in Reqs |-> NoErr]
  /\ oneResult = [i \in Reqs |-> EmptyPost]
  /\ ret = [i \in Reqs |-> "none"]
  /\ reply = [i \in Reqs |-> NoReply]

\* log.Fatal(err): os.Exit(1)
Fatal(site) ==
  /\ exited' = TRUE
  /\ fatalAt' = site

\* a GetMongo that hands the connect error back to its caller
GetMongo_ReturnsErr(site, ok) ==
  IF ok THEN conns' = conns + 1 /\ UNCHANGED << exited, fatalAt >>
        ELSE conns' = conns /\ fatalAt' = site /\ exited' = exited

\* GetMongo: mongo.Connect opens a new connection, or the process dies
GetMongo(site, ok) ==
  IF ok THEN conns' = conns + 1 /\ UNCHANGED << exited, fatalAt >>
        ELSE conns' = conns /\ Fatal(site)

\* init(): ctx, collection := GetMongo("posts")
InitGetMongo(ok) ==
  /\ ~exited /\ ipc = "start"
  /\ GetMongo("init", ok)
  /\ ipc' = IF ok THEN "cleanup" ELSE ipc
  /\ UNCHANGED << db, seedings, reqvars >>

\* init(): Cleanup("post") -> GetMongo(col)
CleanupGetMongo(ok) ==
  /\ ~exited /\ ipc = "cleanup"
  /\ GetMongo("cleanup", ok)
  /\ ipc' = IF ok THEN "delete" ELSE ipc
  /\ UNCHANGED << db, seedings, reqvars >>

\* Cleanup: collection.DeleteMany(ctx, {})
CleanupDeleteMany(ok) ==
  /\ ~exited /\ ipc = "delete"
  /\ IF ok
       THEN /\ db' = [db EXCEPT ![CleanupCol] = << >>]
            /\ ipc' = "insert"
            /\ UNCHANGED << exited, fatalAt >>
       ELSE Fatal("delete") /\ UNCHANGED << db, ipc >>
  /\ UNCHANGED << seedings, conns, reqvars >>

\* init(): collection.InsertMany(ctx, mock data), then "Mock data added"
InitInsertMany(ok) ==
  /\ ~exited /\ ipc = "insert"
  /\ IF ok
       THEN /\ db' = [db EXCEPT ![InitCol] = @ \o MockData]
            /\ ipc' = "done"
            /\ seedings' = seedings + 1
            /\ UNCHANGED << exited, fatalAt >>
       ELSE Fatal("insert") /\ UNCHANGED << db, ipc, seedings >>
  /\ UNCHANGED << conns, reqvars >>

\* requests are served once init() has returned
Serving == ~exited /\ ipc = "done"

\* ---- a request: Handler, graphqlSchema.Exec, Resolver.Post

\* a Handler without the return after http.Error: it goes on to Exec
HandlerDecode_NoReturn(i, body) ==
  /\ Serving /\ rpc[i] = "idle"
  /\ \A j \in Reqs : j < i => rpc[j] # "idle"
  /\ err' = [err EXCEPT ![i].decode = ~body.json]
  /\ reply' = [reply EXCEPT ![i] =
       IF ~body.json
         THEN Write(@, StatusBadRequest, "text/plain", "decode error",
                    NoResponse)
         ELSE @]
  /\ params' = [params EXCEPT ![i] = body]
  /\ oneResult' = [oneResult EXCEPT ![i] = EmptyPost]
  /\ rpc' = [rpc EXCEPT ![i] = "getmongo"]
  /\ UNCHANGED << db, ipc, exited, seedings, conns, fatalAt, ret >>

\* Handler: json.NewDecoder(r.Body).Decode(&params); on success Exec
\* calls Resolver.Post, which starts with oneResult := &post{}
HandlerDecode(i, body) ==
  /\ Serving /\ rpc[i] = "idle"
  /\ \A j \in Reqs : j < i => rpc[j] # "idle"
  /\ IF ~body.json
       THEN /\ err' = [err EXCEPT ![i].decode = TRUE]
            /\ reply' = [reply EXCEPT ![i] =
                 Write(@, StatusBadRequest, "text/plain", "decode error",
                       NoResponse)]
            /\ rpc' = [rpc EXCEPT ![i] = "done"]
            /\ UNCHANGED << params, oneResult >>
       ELSE /\ params' = [params EXCEPT ![i] = body]
            /\ oneResult' = [oneResult EXCEPT ![i] = EmptyPost]
            /\ rpc' = [rpc EXCEPT ![i] = "getmongo"]
            /\ UNCHANGED << err, reply >>
  /\ UNCHANGED << db, ipc, exited, seedings, conns, fatalAt, ret >>

\* Post: ctx, collection := GetMongo("post")
PostGetMongo(i, ok) ==
  /\ Serving /\ rpc[i] = "getmongo"
  /\ GetMongo("post", ok)
  /\ rpc' = [rpc EXCEPT ![i] = IF ok THEN "find" ELSE @]
  /\ UNCHANGED << db, ipc, seedings, params, err, oneResult, ret, reply >>

\* a Post that decodes into one package-level post shared by all calls
PostFind_Shared(i, ok) ==
  /\ Serving /\ rpc[i] = "find"
  /\ LET c == Find(db[PostCol], params[i].slug, ok)
         r == IF c.nil THEN oneResult[i] ELSE DecodeAll(c.docs, oneResult[i])
     IN /\ err' = [err EXCEPT ![i].find = c.nil]
        /\ oneResult' = [j \in Reqs |-> r]
        /\ ret' = [ret EXCEPT ![i] = IF c.nil THEN "panic" ELSE PostReturn(r)]
  /\ rpc' = [rpc EXCEPT ![i] = "marshal"]
  /\ UNCHANGED << db, ipc, exited, seedings, conns, fatalAt, params, reply >>

\* a Post that removes the documents it has read
PostFind_Consuming(i, ok) ==
  /\ Serving /\ rpc[i] = "find"
  /\ LET c == Find(db[PostCol], params[i].slug, ok)
         r == IF c.nil THEN oneResult[i] ELSE DecodeAll(c.docs, oneResult[i])
     IN /\ err' = [err EXCEPT ![i].find = c.nil]
        /\ oneResult' = [oneResult EXCEPT ![i] = r]
        /\ ret' = [ret EXCEPT ![i] = IF c.nil THEN "panic" ELSE PostReturn(r)]
  /\ db' = [db EXCEPT ![PostCol] =
       SelectSeq(@, LAMBDA d : ~ok \/ d.slug # params[i].slug)]
  /\ rpc' = [rpc EXCEPT ![i] = "marshal"]
  /\ UNCHANGED << ipc, exited, seedings, conns, fatalAt, params, reply >>

\* Post from Find on: cur, err := collection.Find(...); an error is printed
\* and execution continues with the nil cursor; defer cur.Close(ctx);
\* for cur.Next(ctx) { cur.Decode(oneResult) }; return.  A method call on
\* the nil cursor is a run-time panic.  The cursor is local to the call and
\* closed on return, so the loop is one step with the query.
PostFind(i, ok) ==
  /\ Serving /\ rpc[i] = "find"
  /\ LET c == Find(db[PostCol], params[i].slug, ok)
         r == IF c.nil THEN oneResult[i] ELSE DecodeAll(c.docs, oneResult[i])
     IN /\ err' = [err EXCEPT ![i].find = c.nil]
        /\ oneResult' = [oneResult EXCEPT ![i] = r]
        /\ ret' = [ret EXCEPT ![i] = IF c.nil THEN "panic" ELSE PostReturn(r)]
  /\ rpc' = [rpc EXCEPT ![i] = "marshal"]
  /\ UNCHANGED << db, ipc, exited, seedings, conns, fatalAt, params, reply >>

\* the executor resolves the fields of what Post returned, and Handler
\* serialises: json.Marshal(response), then http.Error or Header().Set +
\* Write; Handler returns and the locals of Post are gone
HandlerRespond(i, ok) ==
  /\ Serving /\ rpc[i] = "marshal"
  /\ err' = [err EXCEPT ![i].marshal = ~ok]
  /\ reply' = [reply EXCEPT ![i] =
       IF ok THEN Write(@, StatusOK, "application/json", "",
                        ExecResponse(ret[i], oneResult[i]))
             ELSE Write(@, StatusInternalServerError, "text/plain",
                        "marshal error", NoResponse)]
  /\ rpc' = [rpc EXCEPT ![i] = "done"]
  /\ oneResult' = [oneResult EXCEPT ![i] = EmptyPost]
  /\ ret' = [ret EXCEPT ![i] = "none"]
  /\ UNCHANGED << db, ipc, exited, seedings, conns, fatalAt, params >>

\* ---- the environment

\* a new process instance on the same database: init() runs again
Restart ==
  /\ exited \/ ipc = "done"
  /\ seedings < MaxSeedings
  /\ ipc' = "start" /\ exited' = FALSE /\ conns' = 0 /\ fatalAt' = "none"
  /\ rpc' = [i \in Reqs |-> "idle"]
  /\ params' = [i \in Reqs |-> NoParams]
  /\ err' = [i \in Reqs |-> NoErr]
  /\ oneResult' = [i \in Reqs |-> EmptyPost]
  /\ ret' = [i \in Reqs |-> "none"]
  /\ reply' = [i \in Reqs |-> NoReply]
  /\ UNCHANGED << db, seedings >>

\* another client of the database inserts a document into the collection
\* the resolver reads
ExternalInsert(d) ==
  /\ Len(db[PostCol]) < MaxExt
  /\ db' = [db EXCEPT ![PostCol] = Append(@, d)]
  /\ UNCHANGED << ipc, exited, seedings, conns, fatalAt, reqvars >>

Next ==
  \/ \E ok \in BOOLEAN : InitGetMongo(ok)
  \/ \E ok \in BOOLEAN : CleanupGetMongo(ok)
  \/ \E ok \in BOOLEAN : CleanupDeleteMany(ok)
  \/ \E ok \in BOOLEAN : InitInsertMany(ok)
  \/ \E i \in Reqs, body \in Bodies : HandlerDecode(i, body)
  \/ \E i \in Reqs, ok \in BOOLEAN : PostGetMongo(i, ok)
  \/ \E i \in Reqs, ok \in BOOLEAN : PostFind(i, ok)
  \/ \E i \in Reqs, ok \in BOOLEAN : HandlerRespond(i, ok)
  \/ Restart
  \/ \E d \in ExtDocs : ExternalInsert(d)

Spec == Init /\ [][Next]_vars

TypeOK ==
  /\ seedings \in 0..MaxSeedings
  /\ ipc \in {"start", "cleanup", "delete", "insert", "done"}
  /\ fatalAt \in {"none", "init", "cleanup", "delete", "insert", "post"}
  /\ \A i \in Reqs : rpc[i] \in {"idle", "getmongo", "find", "marshal", "done"}

\* ======================================================================
\* Properties

\* the record the schema promises for a seeded slug
SeededPost(s) ==
  CASE s = "first-post" ->
         [ID |-> "1", Slug |-> "first-post", Title |-> "First post"]
    [] s = "second-post" ->
         [ID |-> "2", Slug |-> "second-post", Title |-> "Second post"]
    [] OTHER ->
         [ID |-> "3", Slug |-> "third-post", Title |-> "Third post"]
SeededSlugs == {"first-post", "second-post", "third-post"}

\* Post has returned to the executor without a failed query
Returned(i) == rpc[i] = "marshal" /\ ~err[i].find

\* the step in which request i runs its query, and what the query matches
FindStep(i) == rpc[i] = "find" /\ rpc'[i] = "marshal" /\ ~err'[i].find
Matches(i) == Matching(db[PostCol], params[i].slug)

\* C1: once init() has completed, Post(s) for a seeded slug s returns the
\* seeded record of that slug (id, slug and title): the resolver reads the
\* collection the seeder populated.
C1_SeededSlugResolves ==
  \A i \in Reqs :
    (Returned(i) /\ params[i].slug \in SeededSlugs)
      => (ret[i] = "obj" /\ oneResult[i] = SeededPost(params[i].slug))

\* C2: a slug that matches no document of the queried collection makes Post
\* return nil (a null post field, no error), never an object with empty
\* fields.
C2_NoMatchReturnsNil ==
  [][\A i \in Reqs :
       (FindStep(i) /\ Matches(i) = << >>) => ret'[i] = "nil"]_vars

\* C3: after every successful run of the seeding sequence, the first or a
\* later one, the seeded collection holds exactly the three mock documents.
C3_SeedingIdempotent == ipc = "done" => db[InitCol] = MockData

\* C4: a request that Handler has finished got exactly one response: 400
\* with the error text if decoding failed, else 500 with the error text if
\* serialising failed, else 200 with Content-Type application/json and the
\* serialised result; no other status is ever written.
C4_HandlerOutcome ==
  \A i \in Reqs :
    /\ reply[i].status \in {0, StatusBadRequest, StatusInternalServerError,
                            StatusOK}
    /\ (reply[i].status = 0) <=> (rpc[i] # "done")
    /\ rpc[i] = "done" =>
         /\ reply[i].writes = 1
         /\ IF err[i].decode
              THEN /\ reply[i].status = StatusBadRequest
                   /\ reply[i].text # ""
              ELSE IF err[i].marshal
                THEN /\ reply[i].status = StatusInternalServerError
                     /\ reply[i].text # ""
                ELSE /\ reply[i].status = StatusOK
                     /\ reply[i].ctype = "application/json"
                     /\ reply[i].json.data \in {"null", "object"}

C4_Witness ==
  \E i, j \in Reqs :
    /\ rpc[i] = "done" /\ reply[i].status = StatusBadRequest
    /\ rpc[j] = "done" /\ reply[j].status = StatusInternalServerError

\* C5: whatever the interleaving of concurrent Post calls, what a call
\* holds, and what its request is answered with, is either no document or a
\* document with the slug the call was given.
C5_Isolation ==
  \A i \in Reqs :
    /\ oneResult[i] = EmptyPost \/ oneResult[i].Slug = params[i].slug
    /\ (rpc[i] = "done" /\ reply[i].json.data = "object")
         => \/ reply[i].json.post = EmptyPost
            \/ reply[i].json.post.Slug = params[i].slug

C5_Witness ==
  \E i, j \in Reqs :
    /\ params[i].slug # params[j].slug
    /\ rpc[i] = "marshal" /\ oneResult[i] # EmptyPost
    /\ rpc[j] = "done" /\ reply[j].json.data = "object"
    /\ reply[j].json.post # EmptyPost

\* init() failed at one of its calls
InitFailed == fatalAt \in {"init", "cleanup", "delete", "insert"}

\* a failure of connect, delete or insert during init() ends the process
\* before the success message, and no request is handled
InitFailureIsFatal ==
  InitFailed => (exited /\ ipc # "done" /\ \A i \in Reqs : rpc[i] = "idle")

\* C6: init() empties the collection it then inserts the mock data into,
\* and a failure of connect, delete or insert ends the process at once.
C6_ClearThenInsert ==
  /\ ipc = "insert" => db[InitCol] = << >>
  /\ InitFailureIsFatal

\* the connections the calls of this process instance have opened so far
ConnsExpected ==
  (CASE ipc = "start" -> 0 [] ipc = "cleanup" -> 1 [] OTHER -> 2)
  + Cardinality({ i \in Reqs :
        \/ rpc[i] \in {"find", "marshal"}
        \/ rpc[i] = "done" /\ ~err[i].decode })

ConnectFailureIsFatal ==
  /\ conns = ConnsExpected
  /\ fatalAt \in {"init", "cleanup", "post"} => exited
  /\ fatalAt = "post" =>
       \E i \in Reqs :
         rpc[i] = "getmongo" /\ reply[i] = NoReply /\ ret[i] = "none"

\* C7: every GetMongo call opens one new connection, and a failed connect
\* terminates the process at every call site, also inside Post: the request
\* gets no response and the terminated process takes no further step.
C7_ConnectPerCallFatal ==
  /\ []ConnectFailureIsFatal
  /\ [][(exited /\ exited') => UNCHANGED << ipc, conns, seedings, reqvars >>]_vars

C7_Witness ==
  /\ exited /\ fatalAt = "post"
  /\ \E i, j \in Reqs : rpc[i] = "getmongo" /\ rpc[j] = "done"

\* C8: when Find fails, Post returns normally with no result: no panic, a
\* null post field and no error in the response.
C8_FindErrorYieldsNull ==
  \A i \in Reqs :
    /\ (rpc[i] = "marshal" /\ err[i].find) => ret[i] = "nil"
    /\ (rpc[i] = "done" /\ err[i].find /\ ~err[i].marshal)
         => (reply[i].json.data = "null" /\ reply[i].json.errors = "none")

\* C9: when the filter matches documents d1, ..., dn, Post returns the
\* fields of d1.
C9_FirstMatchReturned ==
  [][\A i \in Reqs :
       (FindStep(i) /\ Matches(i) # << >>)
         => oneResult'[i] = Decode(Head(Matches(i)), EmptyPost)]_vars

\* a step of Handler / Post, and a write by another client
RequestStep ==
  \E i \in Reqs :
    \/ \E body \in Bodies : HandlerDecode(i, body)
    \/ \E ok \in BOOLEAN :
         PostGetMongo(i, ok) \/ PostFind(i, ok) \/ HandlerRespond(i, ok)
ExternalStep == \E d \in ExtDocs : ExternalInsert(d)

\* C10: no step of Handler or Post changes a collection; of the program,
\* only Cleanup's DeleteMany and init()'s InsertMany do.
C10_RequestsReadOnly ==
  [][/\ RequestStep => db' = db
     /\ (db' # db /\ ~ExternalStep)
          => CleanupDeleteMany(TRUE) \/ InitInsertMany(TRUE)]_vars

C10_Witness ==
  \E i \in Reqs :
    /\ rpc[i] = "done" /\ reply[i].json.data = "object"
    /\ reply[i].json.post # EmptyPost
    /\ Matching(db[PostCol], params[i].slug) # << >>

====
